---- MODULE Spec2Model ----
(***************************************************************************)
(* Model of the two AutoTrader strategy variants of the repository:        *)
(*   "V2"  src/autotrader.py                                               *)
(*   "V1"  src/Samson/pyready_trader_go/autotrader_1.py                    *)
(* One handler call is one step.  Time is in centiseconds (0.01 s), so     *)
(* WAIT_TIME = 0.25 s is 25.  A call that places a bid and then an ask     *)
(* reads the clock once for each: the second read is lag later.            *)
(* Real numbers (weighted mid, imbalance) are                              *)
(* exact rationals [n, d]; math.exp(-0.5*i) is the fixed-point value       *)
(* ExpWeight(i)/1000 and math.exp(-0.05*p) is ExpInv[p]/1000000.           *)
(* Fields the handlers write but never read (FBid, FAsk, mid_F, BA_F,      *)
(* theo_E, bid_volume, ask_volume, trade_type) are left out.               *)
(***************************************************************************)
EXTENDS Integers, Sequences, FiniteSets, TLC

VARIABLES
    variant,      \* which source file the trader runs
    now,          \* time.time()
    lag,          \* how far the clock moves between two reads in one call
    order_ids,    \* next value of itertools.count(1)
    bids, asks,   \* live-bid / live-ask id sets
    bid_id, ask_id, bid_price, ask_price, position,
    bid_qtime, ask_qtime, bid_etime, ask_etime,
    theo_F, imbal,
    wpr_F, wpr_E, vol_F, vol_E, N_F, N_E, signal,
    ev,           \* history: the event handled by the last step
    out,          \* history: the commands issued by the last step
    issued,       \* history: issued[i] is what id i was used for
    cancelled,    \* history: ids for which cancel_order was sent
    prev,         \* history: policy output of the last signal update
    same,         \* history: that output equalled the one of the update before
    cleared,      \* history: a slot was cleared by a status since then
    fut,          \* history: the latest snapshot of the future
    reader,       \* the snapshot reader applied to one snapshot on its own
    policy        \* the pricing policy applied to one input on its own

vars == <<variant, now, lag, order_ids, bids, asks, bid_id, ask_id, bid_price,
          ask_price, position, bid_qtime, ask_qtime, bid_etime, ask_etime,
          theo_F, imbal, wpr_F, wpr_E, vol_F, vol_E, N_F, N_E, signal,
          ev, out, issued, cancelled, prev, same, cleared, fut, reader,
          policy>>

fixed == <<variant, reader, lag, policy>>

hist == <<prev, same, cleared, fut>>

ctrl == <<order_ids, bids, asks, bid_id, ask_id, bid_price, ask_price,
          position, bid_qtime, ask_qtime, bid_etime, ask_etime>>

sig == <<theo_F, imbal, wpr_F, wpr_E, vol_F, vol_E, N_F, N_E, signal>>

-----------------------------------------------------------------------------
(* Bounds of the model *)

MaxId == 3
MaxTime == 105
MaxPos == 2
MaxN == 1
MaxGateTime == 140
MaxGateN == 2
MaxPolicyPos == 100
MaxWindowN == 5

-----------------------------------------------------------------------------
(* Program constants *)

FUTURE == 0
ETF == 1

LOT_SIZE == IF variant = "V2" THEN 50 ELSE 30
TICK_SIZE_IN_CENTS == 100
MINIMUM_BID == 1
MAXIMUM_ASK == 2147483647
MIN_BID_NEAREST_TICK ==
    ((MINIMUM_BID + TICK_SIZE_IN_CENTS) \div TICK_SIZE_IN_CENTS) * TICK_SIZE_IN_CENTS
MAX_ASK_NEAREST_TICK == (MAXIMUM_ASK \div TICK_SIZE_IN_CENTS) * TICK_SIZE_IN_CENTS
WAIT_TIME == IF variant = "V2" THEN 25 ELSE 30
UPDATE_TIME == IF variant = "V2" THEN 25 ELSE 100
IMBAL_THRESHOLD == IF variant = "V2" THEN [n |-> 1, d |-> 5] ELSE [n |-> 1, d |-> 2]
ROLLING_WNDW == 4
VOL1 == 50
VOL2 == 100

-----------------------------------------------------------------------------
(* Exact rationals *)

RECURSIVE GCD(_, _)
GCD(a, b) == IF b = 0 THEN a ELSE GCD(b, a % b)

Abs(x) == IF x < 0 THEN -x ELSE x

Rat(n, d) ==
    LET g == GCD(Abs(n), Abs(d))
        s == IF d < 0 THEN -1 ELSE 1
    IN  [n |-> s * (n \div g), d |-> s * (d \div g)]

Int2Rat(k) == [n |-> k, d |-> 1]
Zero == Int2Rat(0)

RatAdd(a, b) ==
    LET g == GCD(a.d, b.d)
    IN  Rat(a.n * (b.d \div g) + b.n * (a.d \div g), (a.d \div g) * b.d)
RatNeg(a) == [n |-> -a.n, d |-> a.d]
RatSub(a, b) == RatAdd(a, RatNeg(b))
RatMul(a, b) ==
    LET g1 == GCD(Abs(a.n), b.d)
        g2 == GCD(Abs(b.n), a.d)
        h1 == IF g1 = 0 THEN 1 ELSE g1
        h2 == IF g2 = 0 THEN 1 ELSE g2
    IN  Rat((a.n \div h1) * (b.n \div h2), (a.d \div h2) * (b.d \div h1))
RatLt(a, b) == a.n * b.d < b.n * a.d
RatIsZero(a) == a.n = 0

\* math.floor(x) and math.ceil(x)
Floor(a) == a.n \div a.d
Ceil(a) == -((-a.n) \div a.d)

-----------------------------------------------------------------------------
(* Module-level functions *)

\* rounding up to the cent, not to the tick
roundup_to_cent(x) == Ceil(x)

roundup(x) == Ceil(Rat(x.n, 100 * x.d)) * 100

rounddown(x) == Floor(Rat(x.n, 100 * x.d)) * 100

Min(a, b) == IF a < b THEN a ELSE b

\* 1000 * math.exp(-0.5 * i), i = 0..4
ExpWeight(i) == <<1000, 607, 368, 223, 135>>[i + 1]

RECURSIVE DepthSum(_, _)
\* sum of math.exp(-0.5*i) * volumes[i] over i in range(k), times 1000
DepthSum(volumes, k) ==
    IF k = 0 THEN 0
    ELSE DepthSum(volumes, k - 1) + ExpWeight(k - 1) * volumes[k]

Levels(book) == Min(Len(book.bid_volumes), Len(book.ask_volumes))
V_bid(book) == DepthSum(book.bid_volumes, Levels(book))
V_ask(book) == DepthSum(book.ask_volumes, Levels(book))

\* I = V_bid/(V_bid + V_ask) if (V_bid + V_ask) != 0 else 0.5
DepthShareHalf(book) ==
    IF V_bid(book) + V_ask(book) # 0
    THEN Rat(V_bid(book), V_bid(book) + V_ask(book))
    ELSE Rat(1, 2)
\* I = V_bid/(V_bid + V_ask) if (V_bid + V_ask) != 0 else 0
DepthShare(book) ==
    IF V_bid(book) + V_ask(book) # 0
    THEN Rat(V_bid(book), V_bid(book) + V_ask(book))
    ELSE Zero

\* theo = I * bid_prices[0] + (1-I) * ask_prices[0]
weighted_mid_swapped(book) ==
    LET I == DepthShare(book)
    IN  RatAdd(RatMul(I, Int2Rat(book.bid_prices[1])),
               RatMul(RatSub(Int2Rat(1), I), Int2Rat(book.ask_prices[1])))
\* theo = I * ask_prices[0] + (1-I) * bid_prices[0]
weighted_mid(book) ==
    LET I == DepthShare(book)
    IN  RatAdd(RatMul(I, Int2Rat(book.ask_prices[1])),
               RatMul(RatSub(Int2Rat(1), I), Int2Rat(book.bid_prices[1])))

\* (V_bid - V_ask) / (V_bid + V_ask) if (V_bid + V_ask) != 0 else 0
Imbalance(book) ==
    IF V_bid(book) + V_ask(book) # 0
    THEN Rat(V_bid(book) - V_ask(book), V_bid(book) + V_ask(book))
    ELSE Zero

ts_append(value, ts) ==
    LET ts1 == IF RatIsZero(value) /\ ts # <<>> THEN Append(ts, ts[Len(ts)]) ELSE ts
        ts2 == IF ~RatIsZero(value) THEN Append(ts1, value) ELSE ts1
    IN  IF ts2 = <<>> /\ RatIsZero(value) THEN Append(ts2, Zero) ELSE ts2

RECURSIVE SeqLcm(_, _)
SeqLcm(ts, k) ==
    IF k = 0 THEN 1
    ELSE LET l == SeqLcm(ts, k - 1)
         IN  (l \div GCD(l, ts[k].d)) * ts[k].d

RECURSIVE SeqSum(_, _)
SeqSum(xs, k) == IF k = 0 THEN 0 ELSE SeqSum(xs, k - 1) + xs[k]

\* np.std(ts) squared: the population variance of the window
StdSquared(ts) ==
    LET L == Len(ts)
        D == SeqLcm(ts, L)
        m == [i \in 1..L |-> ts[i].n * (D \div ts[i].d)]
        sq == [i \in 1..L |-> m[i] * m[i]]
    IN  IF L = 0 THEN Zero
        ELSE Rat(L * SeqSum(sq, L) - SeqSum(m, L) * SeqSum(m, L), L * L * D * D)

\* v < VOL for a volatility v held as its square
VolBelow(v, VOL) == RatLt(v, Int2Rat(VOL * VOL))

\* 1000000 * math.exp(-0.05 * p), p = 0..130
ExpInv ==
    <<1000000, 951229, 904837, 860708, 818731, 778801, 740818, 704688, 670320,
      637628, 606531, 576950, 548812, 522046, 496585, 472367, 449329, 427415,
      406570, 386741, 367879, 349938, 332871, 316637, 301194, 286505, 272532,
      259240, 246597, 234570, 223130, 212248, 201897, 192050, 182684, 173774,
      165299, 157237, 149569, 142274, 135335, 128735, 122456, 116484, 110803,
      105399, 100259, 95369, 90718, 86294, 82085, 78082, 74274, 70651, 67206,
      63928, 60810, 57844, 55023, 52340, 49787, 47359, 45049, 42852, 40762,
      38774, 36883, 35084, 33373, 31746, 30197, 28725, 27324, 25991, 24724,
      23518, 22371, 21280, 20242, 19255, 18316, 17422, 16573, 15764, 14996,
      14264, 13569, 12907, 12277, 11679, 11109, 10567, 10052, 9562, 9095, 8652,
      8230, 7828, 7447, 7083, 6738, 6409, 6097, 5799, 5517, 5248, 4992, 4748,
      4517, 4296, 4087, 3887, 3698, 3518, 3346, 3183, 3028, 2880, 2739, 2606,
      2479, 2358, 2243, 2133, 2029, 1930, 1836, 1747, 1662, 1581, 1503>>

\* LOT_SIZE * math.exp(INV_SCALAR * p) for p >= 0, INV_SCALAR = -0.05
\* the decay with the sign of INV_SCALAR slipped
DecayedGrowing(p) == Rat(LOT_SIZE * 1000000, ExpInv[p + 1])
Decayed(p) == Rat(LOT_SIZE * ExpInv[p + 1], 1000000)

\* the size rounded up to the next whole lot
ToLotsUp(x) == Ceil(x)
\* round(x) in src/autotrader.py, math.floor(x) in autotrader_1.py
ToLots(x) ==
    IF variant = "V2" THEN Floor(RatAdd(x, Rat(1, 2))) ELSE Floor(x)

-----------------------------------------------------------------------------
(* Quote Pricing Policy *)

\* spread half-widths: chosen by self.vol_E in src/autotrader.py, module
\* constants K1 = 4, K2 = 8 in autotrader_1.py
K1 ==
    IF variant = "V2"
    THEN IF VolBelow(vol_E, VOL1) THEN 4 ELSE IF VolBelow(vol_E, VOL2) THEN 6 ELSE 8
    ELSE 4
K2 ==
    IF variant = "V2"
    THEN IF VolBelow(vol_E, VOL1) THEN 4 ELSE IF VolBelow(vol_E, VOL2) THEN 6 ELSE 8
    ELSE 8

\* the bid-imbalance test with the sign of the threshold slipped
BidImbalMirrored(im) == RatLt(im, RatNeg(IMBAL_THRESHOLD))
BidImbal(im) == RatLt(IMBAL_THRESHOLD, im)
AskImbal(im) == RatLt(im, RatNeg(IMBAL_THRESHOLD))

Ticks(k) == Int2Rat(k * TICK_SIZE_IN_CENTS)

new_ask_price(theo, im) ==
    IF variant = "V2"
    THEN IF BidImbal(im) THEN roundup(RatAdd(theo, Ticks(K2)))
         ELSE roundup(RatAdd(theo, Ticks(K1 \div 2)))
    ELSE IF BidImbal(im) THEN roundup(RatAdd(theo, Ticks(K2 \div 2)))
         ELSE IF AskImbal(im) THEN roundup(theo)
         ELSE roundup(RatAdd(theo, Ticks(K1 \div 2)))

\* the bid target with the sign of its offset slipped
new_bid_price_plus(theo, im) == rounddown(RatAdd(theo, Ticks(K2)))

new_bid_price(theo, im) ==
    IF variant = "V2"
    THEN IF BidImbal(im) THEN rounddown(RatSub(theo, Ticks(K1 \div 2)))
         ELSE IF AskImbal(im) THEN rounddown(RatSub(theo, Ticks(K2)))
         ELSE rounddown(RatSub(theo, Ticks(K1 \div 2)))
    ELSE IF BidImbal(im) THEN rounddown(theo)
         ELSE IF AskImbal(im) THEN rounddown(RatSub(theo, Ticks(K2 \div 2)))
         ELSE rounddown(RatSub(theo, Ticks(K1 \div 2)))

new_bid_volume(pos) ==
    IF pos >= 0 THEN ToLots(Decayed(pos)) ELSE ToLots(Int2Rat(LOT_SIZE))

new_ask_volume(pos) ==
    IF pos >= 0 THEN ToLots(Int2Rat(LOT_SIZE)) ELSE ToLots(Decayed(-pos))

\* the policy output for (theo, imbalance, position)
Targets(theo, im, pos) ==
    <<new_bid_price(theo, im), new_ask_price(theo, im),
      new_bid_volume(pos), new_ask_volume(pos)>>

-----------------------------------------------------------------------------
(* Commands *)

Side_BUY == "BUY"
Side_SELL == "SELL"
\* the bid side taken for the sell side
Side_BID_as_SELL == "SELL"
Side_BID == Side_BUY
\* the ask side taken for the buy side
Side_ASK_as_BUY == "BUY"
Side_ASK == Side_SELL

\* the insert sent with the id the slot held before the new id was drawn
send_insert_order_slot_id(id, side, price, volume) ==
    [cmd |-> "insert", id |-> IF side = Side_BUY THEN bid_id ELSE ask_id,
     side |-> side, price |-> price, volume |-> volume,
     lifespan |-> "GOOD_FOR_DAY"]
send_insert_order(id, side, price, volume) ==
    [cmd |-> "insert", id |-> id, side |-> side, price |-> price,
     volume |-> volume, lifespan |-> "GOOD_FOR_DAY"]
send_cancel_order(id) == [cmd |-> "cancel", id |-> id]
\* a hedge of one lot whatever the fill
send_hedge_order_one_lot(id, side, price, volume) ==
    [cmd |-> "hedge", id |-> id, side |-> side, price |-> price, volume |-> 1]
send_hedge_order(id, side, price, volume) ==
    [cmd |-> "hedge", id |-> id, side |-> side, price |-> price, volume |-> volume]

-----------------------------------------------------------------------------
(* Order Lifecycle Controller: the quoting part of on_order_book_update *)

\* a grace period that ends on the dot
WaitElapsedOnTheDot(etime) == (now - etime) >= WAIT_TIME
\* (time.time() - etime) > WAIT_TIME
WaitElapsed(etime) == (now - etime) > WAIT_TIME

\* (time.time() - min(self.ask_qtime, self.bid_qtime)) > UPDATE_TIME in
\* src/autotrader.py, (time.time() - self.ask_qtime) > UPDATE_TIME in autotrader_1.py
\* a requote gate that is always open
UpdateAlways == TRUE
UpdateElapsed ==
    IF variant = "V2"
    THEN (now - Min(ask_qtime, bid_qtime)) > UPDATE_TIME
    ELSE (now - ask_qtime) > UPDATE_TIME

\* the re-check of either side made against the bid's last quoted price
ShouldInsertVsBid(new_price, price) == new_price \notin {bid_price, 0}
\* a re-check that forgets the last quoted price
ShouldInsertNonZero(new_price, price) == new_price # 0
\* new_price not in (price, 0)
ShouldInsert(new_price, price) == new_price \notin {price, 0}

\* whether the branch taken for the current slots goes on to the inserts
Proceeds ==
    IF bid_id = 0 /\ ask_id = 0 THEN TRUE
    ELSE IF bid_id = 0 /\ ask_id # 0 THEN WaitElapsed(bid_etime)
    ELSE IF bid_id # 0 /\ ask_id = 0 THEN WaitElapsed(ask_etime)
    ELSE UpdateElapsed

\* a cancel for both slots whenever one of them holds an order
CancelsBothSlots ==
    IF bid_id = 0 /\ ask_id = 0 THEN <<>>
    ELSE <<send_cancel_order(bid_id), send_cancel_order(ask_id)>>

\* the cancels the branch sends before its inserts
Cancels ==
    IF bid_id = 0 /\ ask_id = 0 THEN <<>>
    ELSE IF bid_id = 0 /\ ask_id # 0 THEN <<send_cancel_order(ask_id)>>
    ELSE IF bid_id # 0 /\ ask_id = 0 THEN <<send_cancel_order(bid_id)>>
    ELSE <<send_cancel_order(bid_id), send_cancel_order(ask_id)>>

CancelIds == {Cancels[i].id : i \in 1..Len(Cancels)}

\* the quoting block run with targets t = <<bid price, ask price, bid volume,
\* ask volume>>: the new values of the controller fields and the commands
Quote(t) ==
    LET insB == ShouldInsert(t[1], bid_price)
        insA == ShouldInsert(t[2], ask_price)
        idB == order_ids
        idA == IF insB THEN order_ids + 1 ELSE order_ids
        \* self.bid_qtime = time.time() and, later, self.ask_qtime = time.time()
        tB == now
        tA == IF insB THEN now + lag ELSE now
        cmdB == IF insB THEN <<send_insert_order(idB, Side_BUY, t[1], t[3])>> ELSE <<>>
        cmdA == IF insA THEN <<send_insert_order(idA, Side_SELL, t[2], t[4])>> ELSE <<>>
    IN  IF Proceeds
        THEN [bid_id |-> IF insB THEN idB ELSE 0,
              ask_id |-> IF insA THEN idA ELSE 0,
              bid_price |-> IF insB THEN t[1] ELSE bid_price,
              ask_price |-> IF insA THEN t[2] ELSE ask_price,
              bid_qtime |-> IF insB THEN tB ELSE bid_qtime,
              ask_qtime |-> IF insA THEN tA ELSE ask_qtime,
              now |-> IF insA THEN tA ELSE now,
              bids |-> IF insB THEN bids \cup {idB} ELSE bids,
              asks |-> IF insA THEN asks \cup {idA} ELSE asks,
              order_ids |-> IF insA THEN idA + 1 ELSE idA,
              out |-> Cancels \o cmdB \o cmdA,
              issued |-> issued \o (IF insB THEN <<"bid">> ELSE <<>>)
                               \o (IF insA THEN <<"ask">> ELSE <<>>),
              cancelled |-> cancelled \cup CancelIds]
        ELSE [bid_id |-> bid_id, ask_id |-> ask_id, bid_price |-> bid_price,
              ask_price |-> ask_price, bid_qtime |-> bid_qtime,
              ask_qtime |-> ask_qtime, bids |-> bids, asks |-> asks,
              now |-> now, order_ids |-> order_ids, out |-> <<>>,
              issued |-> issued, cancelled |-> cancelled]

\* the controller fields take the values of q
Apply(quote) ==
    LET q == quote
    IN  /\ bid_id' = q.bid_id /\ ask_id' = q.ask_id
        /\ bid_price' = q.bid_price /\ ask_price' = q.ask_price
        /\ bid_qtime' = q.bid_qtime /\ ask_qtime' = q.ask_qtime
        /\ now' = q.now
        /\ bids' = q.bids /\ asks' = q.asks
        /\ order_ids' = q.order_ids
        /\ out' = q.out /\ issued' = q.issued /\ cancelled' = q.cancelled
        /\ UNCHANGED <<position, bid_etime, ask_etime>>

NoQuote ==
    /\ out' = <<>>
    /\ UNCHANGED <<now, ctrl, issued, cancelled>>

-----------------------------------------------------------------------------
(* Events *)

NoBook == <<>>
\* the handler called, with the order id, the remaining volume and the book
\* it was given (a fill's volume is the volume of the hedge in out), and
\* whether the id was in a live set when the event arrived
Event(h, id, remaining_volume, instrument, book) ==
    [h |-> h, id |-> id, remaining_volume |-> remaining_volume,
     instrument |-> instrument, book |-> book, live |-> id \in bids \cup asks]

NoUpdate == <<-1>>

\* an attribute __init__ does not assign: self.imbal in src/autotrader.py
Unset == [n |-> 0, d |-> 0]

\* the test of the theoretical price passing at 0
HasSignalNonNegative(theo) == ~RatLt(theo, Zero)
\* no test of the theoretical price
HasSignalAlways(theo) == TRUE
\* if self.theo_F != 0: (if theo_F != 0: in autotrader_1.py)
HasSignal(theo) == ~RatIsZero(theo)

\* the rolling-window block without the eviction of the oldest value
WindowKeepAll(wp, N, wpr, vol) ==
    LET s1 == IF signal = 0 /\ ~RatIsZero(wp) THEN 1 ELSE signal
        w1 == ts_append(wp, wpr)
    IN  IF s1 = 1
        THEN IF N + 1 > ROLLING_WNDW
             THEN [signal |-> s1, N |-> N + 1, wpr |-> w1, vol |-> StdSquared(w1)]
             ELSE [signal |-> s1, N |-> N + 1, wpr |-> w1, vol |-> vol]
        ELSE [signal |-> s1, N |-> N, wpr |-> wpr, vol |-> vol]

\* the rolling-window block: self.signal, N, the window and its volatility
Window(wp, N, wpr, vol) ==
    LET s1 == IF signal = 0 /\ ~RatIsZero(wp) THEN 1 ELSE signal
        w1 == ts_append(wp, wpr)
    IN  IF s1 = 1
        THEN IF N + 1 > ROLLING_WNDW
             THEN [signal |-> s1, N |-> N + 1, wpr |-> Tail(w1),
                   vol |-> StdSquared(Tail(w1))]
             ELSE [signal |-> s1, N |-> N + 1, wpr |-> w1, vol |-> vol]
        ELSE [signal |-> s1, N |-> N, wpr |-> wpr, vol |-> vol]

\* src/autotrader.py
on_order_book_update_message_V2(instrument, book) ==
    /\ variant = "V2"
    /\ ev' = Event("book", 0, 0, instrument, book)
    /\ UNCHANGED <<fixed, vol_E>>
    /\ IF instrument = FUTURE
       THEN LET wp == weighted_mid(book)
                w == Window(wp, N_F, wpr_F, vol_F)
            IN  /\ imbal' = Imbalance(book)
                /\ theo_F' = wp
                /\ signal' = w.signal /\ N_F' = w.N /\ wpr_F' = w.wpr /\ vol_F' = w.vol
                /\ fut' = book
                /\ UNCHANGED <<wpr_E, N_E, prev, same, cleared>>
                /\ NoQuote
       ELSE LET wp == weighted_mid(book)
                w == Window(wp, N_E, wpr_E, vol_F)
            IN  /\ signal' = w.signal /\ N_E' = w.N /\ wpr_E' = w.wpr /\ vol_F' = w.vol
                /\ UNCHANGED <<imbal, theo_F, wpr_F, N_F, fut>>
                /\ cleared' = FALSE
                /\ IF HasSignal(theo_F)
                   THEN LET t == Targets(theo_F, imbal, position)
                        IN  /\ Apply(Quote(t))
                            /\ prev' = t
                            /\ same' = (prev = t)
                   ELSE /\ NoQuote
                        /\ prev' = <<>>
                        /\ same' = FALSE

\* src/Samson/pyready_trader_go/autotrader_1.py
on_order_book_update_message_V1(instrument, book) ==
    /\ variant = "V1"
    /\ ev' = Event("book", 0, 0, instrument, book)
    /\ UNCHANGED <<fixed, imbal, wpr_F, wpr_E, vol_F, vol_E, N_F, N_E, signal>>
    /\ IF instrument = FUTURE
       THEN LET theo == weighted_mid(book)
                im == Imbalance(book)
            IN  /\ cleared' = FALSE
                /\ fut' = book
                /\ IF HasSignal(theo)
                   THEN /\ theo_F' = theo
                        /\ LET t == Targets(theo, im, position)
                           IN  /\ Apply(Quote(t))
                               /\ prev' = t
                               /\ same' = (prev = t)
                   ELSE /\ UNCHANGED theo_F
                        /\ NoQuote
                        /\ prev' = <<>>
                        /\ same' = FALSE
       ELSE /\ UNCHANGED <<theo_F, hist>>
            /\ NoQuote

\* the id held by the bid slot taken for the live-bid set
IsLiveBidSlot(id) == id # 0 /\ id = bid_id
\* any id ever issued for a bid, live or not
IsIssuedBid(id) == id \in 1..Len(issued) /\ issued[id] = "bid"
\* client_order_id in self.bids, client_order_id in self.asks
\* any id outside the live-ask set taken for a live bid
IsLiveBidElse(id) == id \notin asks
IsLiveBid(id) == id \in bids
\* the ask test repeating the bid test
IsLiveAskAsBid(id) == id \in bids
IsLiveAsk(id) == id \in asks

on_order_filled_message(id, volume) ==
    /\ ev' = Event("fill", id, 0, 0, NoBook)
    /\ UNCHANGED <<fixed, now, sig, hist, cancelled>>
    /\ UNCHANGED <<bids, asks, bid_id, ask_id, bid_price, ask_price,
                   bid_qtime, ask_qtime, bid_etime, ask_etime>>
    /\ IF IsLiveBid(id)
       THEN /\ position' = position + volume
            /\ out' = <<send_hedge_order(order_ids, Side_ASK, MIN_BID_NEAREST_TICK, volume)>>
            /\ order_ids' = order_ids + 1
            /\ issued' = Append(issued, "hedge")
       ELSE IF IsLiveAsk(id)
       THEN /\ position' = position - volume
            /\ out' = <<send_hedge_order(order_ids, Side_BID, MAX_ASK_NEAREST_TICK, volume)>>
            /\ order_ids' = order_ids + 1
            /\ issued' = Append(issued, "hedge")
       ELSE /\ out' = <<>>
            /\ UNCHANGED <<position, order_ids, issued>>

\* a discard that removes nothing
DiscardNothing(S, id) == S
\* self.bids.discard(id) and self.asks.discard(id)
Discard(S, id) == S \ {id}

\* any live ask id taken for the id in the ask slot
IsAskSlotLive(id) == id \in asks
\* the bid test comparing with the ask slot
IsBidSlotAsAsk(id) == id = ask_id
\* client_order_id == self.bid_id, client_order_id == self.ask_id
IsBidSlot(id) == id = bid_id
\* the ask-slot test repeating the bid-slot test
IsAskSlotAsBid(id) == id = bid_id
IsAskSlot(id) == id = ask_id

\* the body of on_order_status_message
StatusBody(id, remaining_volume) ==
    /\ IF remaining_volume = 0
       THEN /\ IF IsBidSlot(id)
               THEN /\ bid_id' = 0 /\ bid_etime' = now
                    /\ UNCHANGED <<ask_id, ask_etime>>
               ELSE IF IsAskSlot(id)
               THEN /\ ask_id' = 0 /\ ask_etime' = now
                    /\ UNCHANGED <<bid_id, bid_etime>>
               ELSE UNCHANGED <<bid_id, bid_etime, ask_id, ask_etime>>
            /\ bids' = Discard(bids, id)
            /\ asks' = Discard(asks, id)
       ELSE UNCHANGED <<bid_id, bid_etime, ask_id, ask_etime, bids, asks>>
    /\ cleared' = (cleared \/ bid_id' # bid_id \/ ask_id' # ask_id)
    /\ out' = <<>>
    /\ UNCHANGED <<order_ids, bid_price, ask_price, position, bid_qtime, ask_qtime>>
    /\ UNCHANGED <<fixed, now, sig, prev, same, fut, issued, cancelled>>

\* every status handled as a terminal one
on_order_status_message_terminal(id, remaining_volume) ==
    /\ ev' = Event("status", id, remaining_volume, 0, NoBook)
    /\ StatusBody(id, 0)

on_order_status_message(id, remaining_volume) ==
    /\ ev' = Event("status", id, remaining_volume, 0, NoBook)
    /\ StatusBody(id, remaining_volume)

\* client_order_id != 0 and client_order_id in self.bids
ErrorIsLiveBid(id) == id # 0 /\ id \in bids
\* client_order_id != 0 and (client_order_id in self.bids or client_order_id in self.asks)
ErrorIsLive(id) == id # 0 /\ (id \in bids \/ id \in asks)

on_error_message(id) ==
    /\ ev' = Event("error", id, 0, 0, NoBook)
    /\ IF ErrorIsLive(id)
       THEN StatusBody(id, 0)
       ELSE /\ out' = <<>>
            /\ UNCHANGED <<fixed, now, ctrl, sig, hist, issued, cancelled>>

on_hedge_filled_message(id, volume) ==
    /\ ev' = Event("hedge_filled", 0, 0, 0, NoBook)
    /\ out' = <<>>
    /\ UNCHANGED <<fixed, now, ctrl, sig, hist, issued, cancelled>>

\* the traded prices taken for a book: the theoretical price follows them
on_trade_ticks_message_as_price(instrument, book) ==
    /\ ev' = Event("trade_ticks", 0, 0, 0, NoBook)
    /\ out' = <<>>
    /\ theo_F' = weighted_mid(book)
    /\ UNCHANGED <<fixed, now, ctrl, hist, issued, cancelled>>
    /\ UNCHANGED <<imbal, wpr_F, wpr_E, vol_F, vol_E, N_F, N_E, signal>>

on_trade_ticks_message(instrument, book) ==
    /\ ev' = Event("trade_ticks", 0, 0, 0, NoBook)
    /\ out' = <<>>
    /\ UNCHANGED <<fixed, now, ctrl, sig, hist, issued, cancelled>>

\* the wall clock advances by d between two events
Tick(d) ==
    /\ now' = now + d
    /\ ev' = Event("tick", 0, 0, 0, NoBook)
    /\ out' = <<>>
    /\ UNCHANGED <<fixed, ctrl, sig, hist, issued, cancelled>>

-----------------------------------------------------------------------------
(* The trader under a stream of events *)

Book(bp, bv, ap, av) ==
    [bid_prices |-> bp, bid_volumes |-> bv, ask_prices |-> ap, ask_volumes |-> av]

NoVolume == <<0, 0, 0, 0, 0>>
Top(x) == <<x, 0, 0, 0, 0>>

\* nothing on either side: weighted mid 0
BookNone == Book(NoVolume, NoVolume, NoVolume, NoVolume)
\* prices without volume: weighted mid = best bid = 1100
BookZeroDepth == Book(Top(1100), NoVolume, Top(1300), NoVolume)
\* weighted mid 1100, imbalance 0
BookEven == Book(Top(1000), Top(1), Top(1200), Top(1))
\* weighted mid 200, imbalance 0: the bid target is 0
BookLow == Book(Top(100), Top(1), Top(300), Top(1))

\* weighted mid 1100, imbalance 3/4
BookBidHeavy == Book(Top(400), Top(7), Top(1200), Top(1))

FutureBooks == {BookNone, BookZeroDepth, BookLow, BookBidHeavy}
EtfBooks == {BookEven}
Instruments == {FUTURE, ETF}
Books(instrument) == IF instrument = FUTURE THEN FutureBooks ELSE EtfBooks
FillVolumes == {1, 2}
TickSteps == {105}
\* the ids the exchange can report on: those issued so far, for quotes and
\* for hedges
Ids == 1..(order_ids - 1)
QuoteIds == {id \in Ids : issued[id] \in {"bid", "ask"}}
HedgeIds == {id \in Ids : issued[id] = "hedge"}
\* a status with volume remaining is for an order still in the book
Remaining(id) == IF id \in bids \cup asks THEN {0, 1} ELSE {0}

InitTrader ==
    /\ variant \in {"V1", "V2"}
    /\ now = 0
    /\ order_ids = 1
    /\ bids = {} /\ asks = {}
    /\ ask_id = 0 /\ ask_price = 0 /\ bid_id = 0 /\ bid_price = 0 /\ position = 0
    /\ bid_qtime = 0 /\ ask_qtime = 0 /\ bid_etime = 0 /\ ask_etime = 0
    /\ theo_F = Zero
    /\ imbal = IF variant = "V2" THEN Unset ELSE Zero
    /\ wpr_E = <<>> /\ wpr_F = <<>>
    /\ vol_E = Zero /\ vol_F = Zero /\ N_E = 0 /\ N_F = 0 /\ signal = 0
    /\ ev = Event("init", 0, 0, 0, NoBook)
    /\ out = <<>>
    /\ issued = <<>>
    /\ cancelled = {}
    /\ prev = NoUpdate
    /\ same = FALSE
    /\ cleared = FALSE
    /\ fut = NoBook

\* the reader is not run on its own
Idle == [book |-> NoBook, theo |-> Zero, imbal |-> Zero, done |-> TRUE]

\* the policy is not run on its own
NoPolicy == [theo |-> Zero, imbal |-> Zero, pos |-> 0, t |-> NoUpdate, done |-> TRUE]

Init == InitTrader /\ reader = Idle /\ lag = 0 /\ policy = NoPolicy

\* the ids drawn so far are within 1..MaxId, and one of them is still free;
\* room for the counters
IdsLeft == order_ids <= MaxId + 1
IdsFree == order_ids <= MaxId
WindowLeft(i) == IF i = FUTURE THEN N_F < MaxN ELSE N_E < MaxN
PosLeft(v) == position + v <= MaxPos /\ position - v >= -MaxPos

HedgeBooks(instrument) ==
    IF instrument = FUTURE THEN {BookZeroDepth, BookLow} ELSE EtfBooks

\* the snapshots and the order events, the events arriving for any id handed
\* out, the ids of hedges included
NextHedge ==
    \/ \E d \in TickSteps : now + d <= MaxTime /\ Tick(d)
    \/ \E i \in Instruments : \E b \in HedgeBooks(i) :
          /\ IdsFree /\ WindowLeft(i)
          /\ on_order_book_update_message_V2(i, b)
          /\ IdsLeft'
    \/ \E i \in Instruments : \E b \in HedgeBooks(i) :
          /\ IdsFree
          /\ on_order_book_update_message_V1(i, b)
          /\ IdsLeft'
    \/ \E id \in Ids : \E v \in FillVolumes :
          /\ PosLeft(v)
          /\ on_order_filled_message(id, v)
          /\ IdsLeft'
    \/ \E id \in Ids : on_order_status_message(id, 0)
    \/ \E id \in Ids \cup {0} : on_error_message(id)

SpecHedge == Init /\ [][NextHedge]_vars

\* the instants at which the gate specification looks at the clock: the
\* expiry of the gate of the current lifecycle state, on the dot and one
\* step later, and one step after the missing side's terminal time
GateStep == 5
\* the clock read for the ask placement may be later than the one for the
\* bid placement of the same call
GateLags == {0, GateStep}
GateInstants ==
    IF bid_id = 0 /\ ask_id = 0 THEN {}
    ELSE IF bid_id = 0
    THEN {bid_etime + GateStep, bid_etime + WAIT_TIME, bid_etime + WAIT_TIME + GateStep}
    ELSE IF ask_id = 0
    THEN {ask_etime + GateStep, ask_etime + WAIT_TIME, ask_etime + WAIT_TIME + GateStep}
    ELSE {Min(bid_qtime, ask_qtime) + UPDATE_TIME,
          Min(bid_qtime, ask_qtime) + UPDATE_TIME + GateStep}
InitGate == InitTrader /\ reader = Idle /\ lag \in GateLags /\ policy = NoPolicy

\* bid 1000 for 1 lot, ask 1100 for 3: weighted mid 1025, off the tick grid
BookOffTick == Book(Top(1000), Top(1), Top(1100), Top(3))
GateBooks(instrument) ==
    IF instrument = FUTURE THEN {BookLow, BookBidHeavy, BookOffTick} ELSE EtfBooks

WindowLeftGate(i) == IF i = FUTURE THEN N_F < MaxN ELSE N_E < MaxGateN

\* the controller under snapshots, terminal statuses and a fine clock
NextGate ==
    \/ \E T \in GateInstants : T > now /\ T <= MaxGateTime /\ Tick(T - now)
    \/ \E i \in Instruments : \E b \in GateBooks(i) :
          /\ IdsFree /\ WindowLeftGate(i)
          /\ on_order_book_update_message_V2(i, b)
          /\ IdsLeft'
    \/ \E i \in Instruments : \E b \in GateBooks(i) :
          /\ IdsFree
          /\ on_order_book_update_message_V1(i, b)
          /\ IdsLeft'
    \/ \E id \in QuoteIds : on_order_status_message(id, 0)

SpecGate == InitGate /\ [][NextGate]_vars

\* src/autotrader.py with fills racing its cancels: snapshots, fills and
\* terminal statuses for the quote ids, the clock moved to the gate expiries
InitCancelFill ==
    /\ InitTrader
    /\ variant = "V2"
    /\ reader = Idle /\ lag = 0 /\ policy = NoPolicy

CancelFillBooks(instrument) ==
    IF instrument = FUTURE THEN {BookZeroDepth, BookLow} ELSE EtfBooks

NextCancelFill ==
    \/ \E T \in GateInstants : T > now /\ T <= MaxGateTime /\ Tick(T - now)
    \/ \E i \in Instruments : \E b \in CancelFillBooks(i) :
          /\ IdsFree /\ WindowLeftGate(i)
          /\ on_order_book_update_message_V2(i, b)
          /\ IdsLeft'
    \/ \E id \in QuoteIds : \E v \in FillVolumes :
          /\ PosLeft(v)
          /\ on_order_filled_message(id, v)
          /\ IdsLeft'
    \/ \E id \in QuoteIds : on_order_status_message(id, 0)

SpecCancelFill == InitCancelFill /\ [][NextCancelFill]_vars

Next ==
    \/ \E d \in TickSteps : now + d <= MaxTime /\ Tick(d)
    \/ \E i \in Instruments : \E b \in Books(i) :
          /\ IdsFree /\ WindowLeft(i)
          /\ on_order_book_update_message_V2(i, b)
          /\ IdsLeft'
    \/ \E i \in Instruments : \E b \in Books(i) :
          /\ IdsFree
          /\ on_order_book_update_message_V1(i, b)
          /\ IdsLeft'
    \/ \E id \in QuoteIds : \E v \in FillVolumes :
          /\ PosLeft(v)
          /\ on_order_filled_message(id, v)
          /\ IdsLeft'
    \/ \E id \in QuoteIds : \E r \in Remaining(id) : on_order_status_message(id, r)
    \/ \E id \in Ids \cup {0} : on_error_message(id)
    \/ \E id \in HedgeIds : \E v \in FillVolumes : on_hedge_filled_message(id, v)
    \/ \E i \in Instruments : \E b \in Books(i) : on_trade_ticks_message(i, b)

Spec == Init /\ [][Next]_vars

-----------------------------------------------------------------------------
(* The snapshot reader on its own: one snapshot in, weighted mid and        *)
(* imbalance out                                                            *)

ReaderPrices == {0, 900, 1000, 1100, 1300}
ReaderVolumes == {0, 1, 3}
ReaderDeepVolumes == {0, 2}
Depth(v, w) == <<v, w, 0, 0, 0>>
ReaderBooks ==
    {Book(Top(bp), Depth(bv, bw), Top(ap), Depth(av, aw)) :
        bp \in ReaderPrices, ap \in ReaderPrices,
        bv \in ReaderVolumes, av \in ReaderVolumes,
        bw \in ReaderDeepVolumes, aw \in ReaderDeepVolumes}

InitReader ==
    /\ InitTrader
    /\ lag = 0
    /\ policy = NoPolicy
    /\ reader \in {[book |-> b, theo |-> Zero, imbal |-> Zero, done |-> FALSE] :
                      b \in ReaderBooks}

\* the first lines of the future branch of on_order_book_update_message
ReadSnapshot ==
    /\ ~reader.done
    /\ reader' = [book |-> reader.book, theo |-> weighted_mid(reader.book),
                  imbal |-> Imbalance(reader.book), done |-> TRUE]
    /\ UNCHANGED <<variant, now, lag, policy, ctrl, sig, hist, ev, out, issued, cancelled>>

NextReader == ReadSnapshot

SpecReader == InitReader /\ [][NextReader]_vars

-----------------------------------------------------------------------------
(* The rolling windows of src/autotrader.py: snapshots of both instruments,
   enough of them to fill a window and evict from it *)

\* bid 1100 for 1 lot, ask 1300 for 1 lot: weighted mid 1200
BookEtfUp == Book(Top(1100), Top(1), Top(1300), Top(1))
WindowBooks(instrument) ==
    IF instrument = FUTURE THEN {BookNone, BookZeroDepth}
    ELSE {BookNone, BookEven, BookEtfUp}

InitWindow ==
    /\ InitTrader
    /\ variant = "V2"
    /\ reader = Idle /\ lag = 0 /\ policy = NoPolicy

WindowLeftWindow(i) == IF i = FUTURE THEN N_F < MaxWindowN ELSE N_E < MaxWindowN

NextWindow ==
    \E i \in Instruments : \E b \in WindowBooks(i) :
        /\ IdsFree /\ WindowLeftWindow(i)
        /\ on_order_book_update_message_V2(i, b)
        /\ IdsLeft'

SpecWindow == InitWindow /\ [][NextWindow]_vars

-----------------------------------------------------------------------------
(* The pricing policy on its own: the spread and volume lines of
   on_order_book_update_message as a function of the fields they read *)

PolicyTheos ==
    {Rat(1, 3), Int2Rat(100), Int2Rat(250), Int2Rat(1000), Rat(2001, 2), Rat(8999, 8)}
PolicyImbals ==
    {Rat(-1, 1), Rat(-3, 4), Rat(-1, 2), Rat(-1, 5), Zero,
     Rat(1, 5), Rat(1, 2), Rat(3, 4), Rat(1, 1)}
\* one volatility (held as its square) below VOL1, one between VOL1 and VOL2,
\* one above VOL2
PolicyVols == {Zero, Int2Rat(75 * 75), Int2Rat(150 * 150)}
PolicyPositions == (0 - MaxPolicyPos)..MaxPolicyPos

PolicyInput(theo, im, pos) ==
    [theo |-> theo, imbal |-> im, pos |-> pos, t |-> NoUpdate, done |-> FALSE]

\* a trader as constructed, but for the volatility, with one policy input:
\* a price input at position 0, or a position input at one price
InitPolicy ==
    /\ variant \in {"V1", "V2"}
    /\ now = 0 /\ lag = 0
    /\ order_ids = 1
    /\ bids = {} /\ asks = {}
    /\ ask_id = 0 /\ ask_price = 0 /\ bid_id = 0 /\ bid_price = 0 /\ position = 0
    /\ bid_qtime = 0 /\ ask_qtime = 0 /\ bid_etime = 0 /\ ask_etime = 0
    /\ theo_F = Zero
    /\ imbal = Zero
    /\ wpr_E = <<>> /\ wpr_F = <<>>
    /\ vol_F = Zero /\ N_E = 0 /\ N_F = 0 /\ signal = 0
    /\ ev = Event("init", 0, 0, 0, NoBook)
    /\ out = <<>>
    /\ issued = <<>>
    /\ cancelled = {}
    /\ prev = NoUpdate
    /\ same = FALSE
    /\ cleared = FALSE
    /\ fut = NoBook
    /\ reader = Idle
    /\ \/ /\ vol_E \in PolicyVols
          /\ policy \in {PolicyInput(theo, im, 0) :
                              theo \in PolicyTheos, im \in PolicyImbals}
       \/ /\ vol_E = Zero
          /\ policy \in {PolicyInput(Int2Rat(1000), Zero, pos) :
                              pos \in PolicyPositions}

\* the lines from `if self.theo_F != 0:` to the volumes
RunPolicy ==
    /\ ~policy.done
    /\ policy' = [policy EXCEPT !.t = Targets(policy.theo, policy.imbal, policy.pos),
                                 !.done = TRUE]
    /\ UNCHANGED <<variant, now, lag, reader, ctrl, sig, hist, ev, out, issued,
                   cancelled>>

NextPolicy == RunPolicy

SpecPolicy == InitPolicy /\ [][NextPolicy]_vars

-----------------------------------------------------------------------------
(* Properties *)

\* the step handled a snapshot that runs the quoting block: a future snapshot
\* in autotrader_1.py, an ETF snapshot in src/autotrader.py
SignalUpdate(e) ==
    /\ e.h = "book"
    /\ e.instrument = (IF variant = "V2" THEN ETF ELSE FUTURE)

\* C1 as stated: the live-bid set and the live-ask set each hold at most one
\* id in every reachable state, also right after a cancel/replace cycle.
C1_OneLiveIdPerSide == Cardinality(bids) <= 1 /\ Cardinality(asks) <= 1

\* C1 amended: on each side at most one live id has not been sent a cancel,
\* and it is the id in that side's slot; the other ids of the live set are
\* ids whose cancel was sent and whose terminal status is still to come.
C1_OneUncancelledIdPerSide ==
    /\ (bids \ cancelled) \subseteq {bid_id}
    /\ (asks \ cancelled) \subseteq {ask_id}
    /\ 0 \notin bids \cup asks

\* a cancel/replace cycle has left two ids in the live-ask set
C1_Witness ==
    /\ Cardinality(asks) = 2
    /\ ask_id \in asks
    /\ Cardinality(asks \ cancelled) = 1

\* C2 as stated: every fill event, whatever its id, issues in its step exactly
\* one hedge, of the fill volume, on the side opposite to the filled order's.
C2_EveryFillHedged ==
    [][ev'.h = "fill" => \A id \in Ids : \A v \in FillVolumes :
          on_order_filled_message(id, v) =>
              /\ Len(out') = 1
              /\ out'[1].cmd = "hedge"
              /\ out'[1].volume = v
              /\ out'[1].side = (IF issued[id] = "bid" THEN "SELL" ELSE "BUY")]_vars

\* C2 amended: a fill event whose id is in the live-bid or live-ask set issues
\* in its step exactly one hedge, of the fill volume, on the side opposite to
\* the filled order's; a fill event whose id is in neither set issues none.
C2_LiveFillHedgedOnce ==
    [][ev'.h = "fill" => \A id \in Ids : \A v \in FillVolumes :
          on_order_filled_message(id, v) =>
              IF id \in bids \cup asks
              THEN /\ Len(out') = 1
                   /\ out'[1].cmd = "hedge"
                   /\ out'[1].volume = v
                   /\ out'[1].side = (IF issued[id] = "bid" THEN "SELL" ELSE "BUY")
              ELSE out' = <<>>]_vars

\* a fill of two lots on the live ask was hedged
C2_Witness ==
    /\ ev.h = "fill"
    /\ ev.id \in asks
    /\ Len(out) = 1
    /\ out[1].cmd = "hedge" /\ out[1].side = "BUY" /\ out[1].volume = 2

\* C3: a fill for a live bid id adds the volume to position and issues, in
\* the same step, one hedge SELL at MIN_BID_NEAREST_TICK for that volume; a
\* fill for a live ask id subtracts it and issues one hedge BUY at
\* MAX_ASK_NEAREST_TICK; no step changes position without the matching hedge.
C3_PositionAndHedgeTogether ==
    [][/\ ev'.h = "fill" => \A id \in Ids : \A v \in FillVolumes :
              on_order_filled_message(id, v) =>
                  /\ id \in bids =>
                        /\ position' = position + v
                        /\ out' = <<[cmd |-> "hedge", id |-> order_ids, side |-> "SELL",
                                     price |-> MIN_BID_NEAREST_TICK, volume |-> v]>>
                  /\ id \in asks =>
                        /\ position' = position - v
                        /\ out' = <<[cmd |-> "hedge", id |-> order_ids, side |-> "BUY",
                                     price |-> MAX_ASK_NEAREST_TICK, volume |-> v]>>
       /\ position' # position =>
              /\ ev'.h = "fill"
              /\ Len(out') = 1
              /\ out'[1].cmd = "hedge"
              /\ out'[1].volume = Abs(position' - position)
              /\ out'[1].side = (IF position' > position THEN "SELL" ELSE "BUY")]_vars

\* a fill of two lots on the live bid moved position to 2 and was hedged
C3_Witness ==
    /\ ev.h = "fill"
    /\ ev.id \in bids
    /\ position = 2
    /\ Len(out) = 1
    /\ out[1].side = "SELL" /\ out[1].price = MIN_BID_NEAREST_TICK
    /\ out[1].volume = 2

C5_FillAfterTerminalIsNoOp ==
    [][/\ ev'.h = "fill"
       /\ issued[ev'.id] \in {"bid", "ask"}
       /\ ev'.id \notin bids \cup asks
       => /\ UNCHANGED <<position, bid_id, ask_id, bids, asks, order_ids>>
          /\ out' = <<>>]_vars

\* a fill arrived for the bid id whose slot a terminal status had cleared
C5_Witness ==
    /\ ev.h = "fill"
    /\ issued[ev.id] = "bid"
    /\ ~ev.live
    /\ ev.id \notin cancelled
    /\ bid_id = 0
    /\ out = <<>>

\* C6: an error event with a non-zero id of a live set clears the slot that
\* holds the id and stamps its terminal time, removes the id from both live
\* sets, issues no command and changes nothing else of the controller: the
\* effect of a status event with remaining volume 0 for that id.
C6_ErrorOnLiveIdClears ==
    [][ev'.h = "error" /\ ev'.id # 0 /\ ev'.id \in bids \cup asks =>
          /\ bid_id' = (IF ev'.id = bid_id THEN 0 ELSE bid_id)
          /\ bid_etime' = (IF ev'.id = bid_id THEN now ELSE bid_etime)
          /\ ask_id' = (IF ev'.id = ask_id THEN 0 ELSE ask_id)
          /\ ask_etime' = (IF ev'.id = ask_id THEN now ELSE ask_etime)
          /\ bids' = bids \ {ev'.id}
          /\ asks' = asks \ {ev'.id}
          /\ out' = <<>>
          /\ UNCHANGED <<order_ids, position, bid_price, ask_price,
                         bid_qtime, ask_qtime>>]_vars

\* an error arrived for the resting ask id: the ask slot is none and its
\* terminal time is the time of the error
C6_Witness ==
    /\ ev.h = "error"
    /\ ev.live
    /\ issued[ev.id] = "ask"
    /\ ev.id \notin cancelled
    /\ ask_id = 0 /\ ask_etime = now /\ now > 0
    /\ ev.id \notin asks

\* C7 as stated: a status event whose id is neither slot's id changes no
\* controller state and issues no command, whatever its remaining volume.
C7_StaleStatusIgnored ==
    [][ev'.h = "status" /\ ev'.id \notin {bid_id, ask_id} =>
          UNCHANGED ctrl /\ out' = <<>>]_vars

\* C7 amended: a status event whose id is neither slot's id issues no command
\* and changes no controller state except that, when its remaining volume is
\* 0, the id is removed from the live-bid and live-ask sets.
C7_StaleStatusOnlyDiscards ==
    [][ev'.h = "status" /\ ev'.id \notin {bid_id, ask_id} =>
          /\ bids' = (IF ev'.remaining_volume = 0 THEN bids \ {ev'.id} ELSE bids)
          /\ asks' = (IF ev'.remaining_volume = 0 THEN asks \ {ev'.id} ELSE asks)
          /\ out' = <<>>
          /\ UNCHANGED <<order_ids, bid_id, ask_id, bid_price, ask_price, position,
                         bid_qtime, ask_qtime, bid_etime, ask_etime>>]_vars

\* the terminal status of a cancelled ask arrived while its replacement rests
C7_Witness ==
    /\ ev.h = "status"
    /\ ev.remaining_volume = 0
    /\ ev.live
    /\ ev.id \in cancelled
    /\ issued[ev.id] = "ask"
    /\ ev.id \notin asks
    /\ ask_id # 0

\* all bid and ask volumes of the snapshot are 0
ZeroDepth(book) ==
    /\ \A i \in 1..Len(book.bid_volumes) : book.bid_volumes[i] = 0
    /\ \A i \in 1..Len(book.ask_volumes) : book.ask_volumes[i] = 0

\* C8 as stated: a signal update that uses a future snapshot of zero total
\* depth issues no insert and no cancel and leaves both slots as they are,
\* whatever the best prices of the snapshot and whatever the timing gates.
C8_ZeroDepthNoAction ==
    [][SignalUpdate(ev') /\ fut' # NoBook /\ ZeroDepth(fut') =>
          out' = <<>> /\ bid_id' = bid_id /\ ask_id' = ask_id]_vars

\* C8 amended: a signal update that uses a future snapshot of zero total
\* depth whose best bid price is 0 issues no insert and no cancel and leaves
\* both slots as they are, whatever the timing gates; when the best bid price
\* is not 0 the weighted mid is that price and the update runs the pricing
\* policy and the controller on it as on any other snapshot.
C8_ZeroDepthZeroBidNoAction ==
    [][SignalUpdate(ev') /\ fut' # NoBook /\ ZeroDepth(fut') =>
          IF fut'.bid_prices[1] = 0
          THEN out' = <<>> /\ bid_id' = bid_id /\ ask_id' = ask_id
          ELSE prev' = Targets(Int2Rat(fut'.bid_prices[1]), Zero, position)]_vars

\* a signal update on an empty future snapshot left both resting orders
\* alone although the requote interval had passed
C8_Witness ==
    /\ SignalUpdate(ev)
    /\ fut = BookNone
    /\ bid_id # 0 /\ ask_id # 0
    /\ now - Min(bid_qtime, ask_qtime) > UPDATE_TIME
    /\ out = <<>>

\* C9: while the latest future snapshot is missing or has weighted mid 0, a
\* snapshot update issues no command and changes neither slot; no insert has
\* price 0; and the first command of a run is issued only once a future
\* snapshot with a non-zero weighted mid has arrived.
C9_NoQuoteWithoutSignal ==
    [][LET theo == IF fut' = NoBook THEN Zero ELSE weighted_mid(fut')
       IN  /\ ev'.h = "book" /\ theo.n = 0 =>
                  out' = <<>> /\ bid_id' = bid_id /\ ask_id' = ask_id
           /\ \A i \in 1..Len(out') :
                  out'[i].cmd = "insert" => out'[i].price # 0
           /\ order_ids = 1 /\ out' # <<>> => theo.n # 0]_vars

\* the first snapshots of a run carried no signal and nothing was sent
C9_Witness ==
    /\ SignalUpdate(ev)
    /\ fut = BookNone
    /\ theo_F = Zero
    /\ order_ids = 1
    /\ out = <<>>

\* C10 as stated: for all-zero bid and ask volumes and any best prices the
\* imbalance is 0 and the weighted mid is 0.5 * (bestBid + bestAsk).
C10_ZeroVolumesGiveMidpoint ==
    reader.done /\ ZeroDepth(reader.book) =>
        /\ reader.imbal = Zero
        /\ reader.theo = Rat(reader.book.bid_prices[1] + reader.book.ask_prices[1], 2)

\* C10 amended: for all-zero bid and ask volumes and any best prices the
\* imbalance is 0 and the weighted mid is bestBid.
C10_ZeroVolumesGiveBestBid ==
    reader.done /\ ZeroDepth(reader.book) =>
        /\ reader.imbal = Zero
        /\ reader.theo = Int2Rat(reader.book.bid_prices[1])

\* the reader was run on a snapshot without volume, bid 900 and ask 1300
C10_Witness ==
    /\ reader.done
    /\ ZeroDepth(reader.book)
    /\ reader.book.bid_prices[1] = 900 /\ reader.book.ask_prices[1] = 1300
    /\ reader.theo = Int2Rat(900)

\* the insert and hedge commands among the commands o, in the order sent
NewOrders(o) == SelectSeq(o, LAMBDA c : c.cmd \in {"insert", "hedge"})

\* C11: the ids of inserts and hedges come from one counter that starts at 1:
\* as many ids have been handed out as the counter has advanced from 1, the
\* insert and hedge commands of a step carry the counter's consecutive next
\* values in the order they are sent, and the counter moves past them, so the
\* ids of successive commands strictly increase and no id is used twice.
C11_IdsFromOneCounter ==
    [][LET n == NewOrders(out')
       IN  /\ order_ids = Len(issued) + 1
           /\ \A i \in 1..Len(n) : n[i].id = order_ids + i - 1
           /\ order_ids' = order_ids + Len(n)]_vars

\* a hedge drew id 3 from the counter that gave the bid id 1 and the ask id 2
C11_Witness ==
    /\ ev.h = "fill"
    /\ Len(out) = 1 /\ out[1].cmd = "hedge" /\ out[1].id = 3
    /\ issued = <<"bid", "ask", "hedge">>
    /\ order_ids = 4

\* C12: position is changed by fills only. A step that handles a book
\* snapshot, trade ticks, an order status, a hedge fill or an error leaves
\* position as it was; a fill of volume v moves it by +v when its id is in the
\* live-bid set, by -v when its id is in the live-ask set, and by 0 otherwise.
C12_PositionFrame ==
    [][/\ ev'.h \in {"book", "trade_ticks", "status", "hedge_filled", "error"}
              => position' = position
       /\ ev'.h = "fill" =>
              \A v \in FillVolumes :
                  on_order_filled_message(ev'.id, v) =>
                      position' = position + (IF ev'.id \in bids THEN v
                                              ELSE IF ev'.id \in asks THEN 0 - v
                                              ELSE 0)]_vars

\* a fill of two lots on the live ask took position from 0 to -2
C12_Witness ==
    /\ ev.h = "fill"
    /\ ev.live
    /\ issued[ev.id] = "ask"
    /\ position = 0 - 2
    /\ Len(out) = 1 /\ out[1].volume = 2

\* the step ran the quoting block: a signal update with a non-zero
\* theoretical price
QuotingUpdate == SignalUpdate(ev') /\ prev' # <<>>

C14_BothRestingGate ==
    [][QuotingUpdate /\ bid_id # 0 /\ ask_id # 0 =>
           IF now - Min(bid_qtime, ask_qtime) > UPDATE_TIME
           THEN /\ Len(out') >= 2
                /\ out'[1] = [cmd |-> "cancel", id |-> bid_id]
                /\ out'[2] = [cmd |-> "cancel", id |-> ask_id]
                /\ \A i \in 3..Len(out') : out'[i].cmd = "insert"
                /\ bid_id' \notin {bid_id, ask_id}
                /\ ask_id' \notin {bid_id, ask_id}
           ELSE /\ out' = <<>>
                /\ bid_id' = bid_id /\ ask_id' = ask_id]_vars

\* C15: the policy skews the quotes away from the heavy side. For every
\* non-zero theoretical price, an imbalance above IMBAL_THRESHOLD gives
\* askPrice - theo > theo - bidPrice, and an imbalance below -IMBAL_THRESHOLD
\* gives theo - bidPrice > askPrice - theo.
C15_ImbalanceSkew ==
    policy.done /\ policy.t # NoUpdate /\ ~RatIsZero(policy.theo) =>
        LET up == RatSub(Int2Rat(policy.t[2]), policy.theo)
            down == RatSub(policy.theo, Int2Rat(policy.t[1]))
        IN  /\ RatLt(IMBAL_THRESHOLD, policy.imbal) => RatLt(down, up)
            /\ RatLt(policy.imbal, RatNeg(IMBAL_THRESHOLD)) => RatLt(up, down)

\* src/autotrader.py priced theo 1000.5 under imbalance 3/4 at 800 / 1500
C15_Witness ==
    /\ policy.done
    /\ variant = "V2"
    /\ policy.theo = Rat(2001, 2)
    /\ policy.imbal = Rat(3, 4)
    /\ policy.t[1] = 800 /\ policy.t[2] = 1500

\* C16: the quoted size decays monotonically with inventory. For positions
\* p1 > p2 >= 0 the bid volume at p1 is at most the bid volume at p2 while the
\* ask volume stays LOT_SIZE; for positions p1 < p2 <= 0 the ask volume at p1
\* is at most the ask volume at p2 while the bid volume stays LOT_SIZE.
C16_DecayMonotone ==
    policy.done /\ policy.t # NoUpdate =>
        IF policy.pos >= 0
        THEN /\ policy.t[4] = LOT_SIZE
             /\ \A p2 \in 0..(policy.pos - 1) :
                    /\ policy.t[3] <= new_bid_volume(p2)
                    /\ new_ask_volume(p2) = LOT_SIZE
        ELSE /\ policy.t[3] = LOT_SIZE
             /\ \A p2 \in (policy.pos + 1)..0 :
                    /\ policy.t[4] <= new_ask_volume(p2)
                    /\ new_bid_volume(p2) = LOT_SIZE

\* at position 10 src/autotrader.py bids for 30 lots and offers 50
C16_Witness ==
    /\ policy.done
    /\ variant = "V2"
    /\ policy.pos = 10
    /\ policy.t[3] = 30 /\ policy.t[4] = 50

\* C17: every insert command carries a price that is a non-zero integer
\* multiple of the tick size 100, whatever the theoretical price, the
\* imbalance and the volatility band, and the recorded quoted prices bid_price
\* and ask_price are 0 or such a multiple.
C17_PricesOnTheTick ==
    /\ \A i \in 1..Len(out) :
           out[i].cmd = "insert" =>
               /\ out[i].price # 0
               /\ out[i].price % TICK_SIZE_IN_CENTS = 0
    /\ bid_price % TICK_SIZE_IN_CENTS = 0
    /\ ask_price % TICK_SIZE_IN_CENTS = 0

\* a snapshot with weighted mid 1025 was quoted on the tick grid around it
C17_Witness ==
    /\ SignalUpdate(ev)
    /\ fut = BookOffTick
    /\ theo_F = Int2Rat(1025)
    /\ Len(out) = 2
    /\ out[1].cmd = "insert" /\ out[1].price = bid_price
    /\ out[2].cmd = "insert" /\ out[2].price = ask_price
    /\ ask_price = 1300
    /\ bid_price \in {600, 800}

\* the insert commands among o for one side
InsertsOf(o, side) == SelectSeq(o, LAMBDA c : c.cmd = "insert" /\ c.side = side)

C19_TerminalStatus ==
    [][ev'.h = "status" /\ ev'.remaining_volume = 0 =>
           LET id == ev'.id
           IN  /\ id = bid_id =>
                      /\ bid_id' = 0 /\ bid_etime' = now
                      /\ ask_id' = ask_id /\ ask_etime' = ask_etime
               /\ id # bid_id /\ id = ask_id =>
                      /\ ask_id' = 0 /\ ask_etime' = now
                      /\ bid_id' = bid_id /\ bid_etime' = bid_etime
               /\ bids' = bids \ {id}
               /\ asks' = asks \ {id}
               /\ out' = <<>>
               /\ bid_price' = bid_price /\ ask_price' = ask_price]_vars

\* the bid in the slot reached its terminal status at 1.05 s: the bid slot is
\* empty, bid_etime is 1.05 s, the ask still rests and bid_price is kept
C19_Witness ==
    /\ ev.h = "status" /\ ev.remaining_volume = 0
    /\ ev.live
    /\ issued[ev.id] = "bid"
    /\ bid_id = 0 /\ bid_etime = now /\ now > 0
    /\ ask_id # 0 /\ ask_etime = 0
    /\ ev.id \notin bids
    /\ bid_price # 0
    /\ out = <<>>

\* C20: hedge orders are fire-and-forget. An id used for a hedge is never in
\* the bid or ask slot, never in the live-bid or live-ask set and never in a
\* cancel command, and a fill, a status or an error that carries a hedge id
\* changes no field of the controller and sends no command, so no further
\* hedge.
C20_HedgeIdsUntracked ==
    [][LET H == {id \in 1..Len(issued') : issued'[id] = "hedge"}
       IN  /\ H \cap ({bid_id', ask_id'} \cup bids' \cup asks') = {}
           /\ \A i \in 1..Len(out') : out'[i].cmd = "cancel" => out'[i].id \notin H
           /\ H \cap cancelled' = {}
           /\ ev'.h \in {"fill", "status", "error"} /\ ev'.id \in HedgeIds =>
                  /\ ctrl' = ctrl
                  /\ out' = <<>>]_vars

\* a fill event arrived with the id of the hedge sent for an earlier bid
\* fill: position is still the 1 lot of that fill and nothing was sent
C20_Witness ==
    /\ ev.h = "fill"
    /\ ev.id \in HedgeIds
    /\ position = 1
    /\ out = <<>>
    /\ order_ids = ev.id + 1

\* the half-width the claimed rule selects for a volatility v (held as its
\* square)
BandK(v) ==
    IF RatLt(v, Int2Rat(VOL1 * VOL1)) THEN 4
    ELSE IF RatLt(v, Int2Rat(VOL2 * VOL2)) THEN 6
    ELSE 8

\* C21: in src/autotrader.py the spread half-widths used when quoting follow
\* the rolling volatility estimate of the snapshots: below VOL1 they are
\* K1 = K2 = 4, in [VOL1, VOL2) 6, and from VOL2 on 8, so that once the
\* standard deviation of the rolling window is at least VOL1 the target
\* prices are wider than in the low-volatility regime.
C21_VolatilityBands ==
    [][QuotingUpdate /\ variant = "V2" =>
           LET est == IF N_E' > ROLLING_WNDW THEN StdSquared(wpr_E') ELSE Zero
               K == BandK(est)
               far == Int2Rat(K * TICK_SIZE_IN_CENTS)
               near == Int2Rat((K \div 2) * TICK_SIZE_IN_CENTS)
               up == RatLt(IMBAL_THRESHOLD, imbal)
               down == RatLt(imbal, RatNeg(IMBAL_THRESHOLD))
           IN  /\ prev'[2] = roundup(RatAdd(theo_F, IF up THEN far ELSE near))
               /\ prev'[1] = rounddown(RatSub(theo_F, IF down /\ ~up THEN far ELSE near))]_vars


\* C22: in src/autotrader.py, after any interleaving of Future and ETF
\* snapshots neither rolling window (wpr_F, wpr_E) holds the value 0: a zero
\* weighted mid repeats the value stored before it instead of being inserted.
C22_NoZeroInWindows ==
    variant = "V2" =>
        /\ \A k \in 1..Len(wpr_F) : ~RatIsZero(wpr_F[k])
        /\ \A k \in 1..Len(wpr_E) : ~RatIsZero(wpr_E[k])


\* one snapshot step of a window: N observations and window w before, N2 and
\* w2 after
FifoStep(N, w, N2, w2) ==
    /\ Len(w2) = Min(N2, ROLLING_WNDW)
    /\ N2 = N => w2 = w
    /\ N2 # N =>
           /\ N2 = N + 1
           /\ LET appended == Append(w, w2[Len(w2)])
              IN  w2 = IF N2 > ROLLING_WNDW THEN Tail(appended) ELSE appended

\* C23: in src/autotrader.py each rolling window holds at most ROLLING_WNDW
\* values at the end of every snapshot step; an accepted observation appends
\* exactly one value, and when that would exceed the capacity exactly the
\* oldest value is dropped, so the window is the last min(N, 4) appended values
\* in arrival order.
C23_BoundedFifo ==
    [][ev'.h = "book" /\ variant = "V2" =>
           /\ FifoStep(N_F, wpr_F, N_F', wpr_F')
           /\ FifoStep(N_E, wpr_E, N_E', wpr_E')]_vars

\* the ETF window has evicted: five observations accepted, four kept, the
\* newest differs from the oldest kept
C23_Witness ==
    /\ variant = "V2"
    /\ N_E = ROLLING_WNDW + 1
    /\ Len(wpr_E) = ROLLING_WNDW
    /\ wpr_E[1] # wpr_E[ROLLING_WNDW]


\* C24: in src/autotrader.py an instrument's volatility estimate stays at its
\* initial 0 until five observations of that instrument have been accepted, and
\* it is rewritten on that instrument's own snapshots only: an ETF snapshot
\* never writes vol_F and a future snapshot never writes vol_E.
C24_VolatilityColdStart ==
    [][ev'.h = "book" /\ variant = "V2" =>
           /\ N_F' <= ROLLING_WNDW => vol_F' = Zero
           /\ N_E' <= ROLLING_WNDW => vol_E' = Zero
           /\ ev'.instrument = ETF => vol_F' = vol_F
           /\ ev'.instrument = FUTURE => vol_E' = vol_E]_vars


\* C25: no handler faults. In src/autotrader.py the quoting path reads
\* self.imbal, which __init__ does not assign, only after a future snapshot
\* has assigned it; and in both programs the quoting path leaves the four
\* targets bound, the two volumes as whole numbers of lots, whatever the sign
\* of the position.
C25_NoHandlerFault ==
    [][QuotingUpdate =>
           /\ variant = "V2" => imbal # Unset /\ fut # NoBook
           /\ Len(prev') = 4
           /\ prev'[1] \in Int /\ prev'[2] \in Int
           /\ prev'[3] \in Nat /\ prev'[4] \in Nat]_vars

\* src/autotrader.py has quoted: an ETF snapshot priced from the imbalance a
\* future snapshot stored, and sent its inserts
C25_Witness ==
    /\ variant = "V2"
    /\ SignalUpdate(ev)
    /\ Len(prev) = 4
    /\ imbal # Unset
    /\ Len(InsertsOf(out, Side_BUY)) = 1 /\ Len(InsertsOf(out, Side_SELL)) = 1


\* C26: on_trade_ticks and on_hedge_filled are inert: for any arguments and in
\* any lifecycle state they leave the slots, quoted prices, timestamps,
\* position, live-id sets, id counter, theoretical price, imbalance and windows
\* as they were, and they send no command.
C26_InformationalInert ==
    [][ev'.h \in {"trade_ticks", "hedge_filled"} =>
           /\ ctrl' = ctrl
           /\ sig' = sig
           /\ out' = <<>>]_vars

\* trade ticks arrived while an order was resting and a position was held
C26_Witness ==
    /\ ev.h = "trade_ticks"
    /\ bid_id # 0 \/ ask_id # 0
    /\ position # 0
    /\ ~RatIsZero(theo_F)


\* the hedge volume the commands o add to the account of hedges: SELL volume
\* minus BUY volume
RECURSIVE HedgeNet(_)
HedgeNet(o) ==
    IF o = <<>> THEN 0
    ELSE (IF Head(o).cmd # "hedge" THEN 0
          ELSE IF Head(o).side = "SELL" THEN Head(o).volume
          ELSE 0 - Head(o).volume) + HedgeNet(Tail(o))

\* C27: position equals the total volume of the hedge SELL commands issued so
\* far minus the total volume of the hedge BUY commands issued so far. Both
\* are 0 before the first id is drawn, and every step moves position by
\* exactly the SELL volume minus the BUY volume of the hedges it sends.
C27_HedgesOffsetPosition ==
    [][/\ order_ids = 1 => position = 0
       /\ position' - position = HedgeNet(out')]_vars

\* two fills of one lot on a resting ask: two hedge BUYs have been issued, the
\* second in this step, and position is -2
C27_Witness ==
    /\ ev.h = "fill"
    /\ position = 0 - 2
    /\ HedgeNet(out) = 0 - 1
    /\ Len(SelectSeq(issued, LAMBDA k : k = "hedge")) = 2


\* the fill is for an order the controller has cancelled and taken out of its
\* slot, whose zero-remaining status has not been handled yet
FillAfterLocalCancel ==
    /\ ev'.h = "fill"
    /\ ev'.id \in cancelled
    /\ ev'.id \in bids \cup asks
    /\ ev'.id # bid_id /\ ev'.id # ask_id

\* C28: a fill for an order that was cancelled and cleared from its slot, and
\* whose zero-remaining status is still to come, moves position by the fill
\* volume in the order's original direction, sends exactly one opposite hedge
\* of that volume, and leaves the current slots, quoted prices and live-id sets
\* as they are.
C28_FillOnCancelledOrder ==
    [][FillAfterLocalCancel =>
           \A v \in FillVolumes :
               on_order_filled_message(ev'.id, v) =>
                   /\ position' = position + (IF issued[ev'.id] = "bid" THEN v ELSE 0 - v)
                   /\ Len(out') = 1
                   /\ out'[1].cmd = "hedge"
                   /\ out'[1].volume = v
                   /\ out'[1].side = (IF issued[ev'.id] = "bid" THEN "SELL" ELSE "BUY")
                   /\ UNCHANGED <<bid_id, ask_id, bid_price, ask_price, bids, asks>>]_vars

\* a bid that was cancelled and cleared from its slot has been filled for two
\* lots before its status arrived
C28_Witness ==
    /\ ev.h = "fill"
    /\ ev.id \in cancelled
    /\ ev.live
    /\ issued[ev.id] = "bid"
    /\ bid_id # ev.id
    /\ ev.id \in bids
    /\ position = 2
    /\ Len(out) = 1 /\ out[1].side = "SELL" /\ out[1].volume = 2


\* the ids of the cancels among the commands o
CancelsOf(o) == {o[k].id : k \in {j \in 1..Len(o) : o[j].cmd = "cancel"}}

\* C29: cancel without replacement. When a requote step cancels the resting
\* order of a side whose target price equals the side's last quoted price, it
\* sends no insert for that side and the slot stays empty; and while a slot is
\* empty (after such a cancel or after a terminal fill) no step inserts on that
\* side unless it is a signal update whose target for the side differs from
\* the last quoted price. The last quoted price changes only with an insert.
C29_CancelWithoutReplacement ==
    [][/\ QuotingUpdate /\ bid_id # 0 /\ bid_id \in CancelsOf(out') /\ prev'[1] = bid_price =>
              /\ InsertsOf(out', "BUY") = <<>>
              /\ bid_id' = 0 /\ bid_price' = bid_price
       /\ QuotingUpdate /\ ask_id # 0 /\ ask_id \in CancelsOf(out') /\ prev'[2] = ask_price =>
              /\ InsertsOf(out', "SELL") = <<>>
              /\ ask_id' = 0 /\ ask_price' = ask_price
       /\ bid_id = 0 /\ (QuotingUpdate => prev'[1] = bid_price) =>
              /\ InsertsOf(out', "BUY") = <<>>
              /\ bid_id' = 0 /\ bid_price' = bid_price
       /\ ask_id = 0 /\ (QuotingUpdate => prev'[2] = ask_price) =>
              /\ InsertsOf(out', "SELL") = <<>>
              /\ ask_id' = 0 /\ ask_price' = ask_price]_vars

\* both orders were cancelled without replacement, and the signal update after
\* that, its targets still at the last quoted prices, sent nothing: both slots
\* are still empty
C29_Witness ==
    /\ SignalUpdate(ev)
    /\ prev # <<>> /\ prev # NoUpdate
    /\ same
    /\ out = <<>>
    /\ bid_id = 0 /\ ask_id = 0
    /\ bids \cap cancelled # {} /\ asks \cap cancelled # {}
    /\ prev[1] = bid_price /\ prev[2] = ask_price


\* C30: slot/set consistency. In every reachable state a non-zero bid_id is in
\* the live-bid set and a non-zero ask_id is in the live-ask set, the two live
\* sets are disjoint, and bid_id differs from ask_id when both are non-zero.
C30_SlotSetConsistency ==
    /\ bid_id # 0 => bid_id \in bids
    /\ ask_id # 0 => ask_id \in asks
    /\ bids \cap asks = {}
    /\ bid_id # 0 /\ ask_id # 0 => bid_id # ask_id

\* both slots hold orders while a cancelled ask is still in the live-ask set
C30_Witness ==
    /\ bid_id # 0 /\ ask_id # 0
    /\ bid_id \in bids /\ ask_id \in asks
    /\ Cardinality(asks) = 2
    /\ asks \cap cancelled # {}


\* C31: no self-crossing quote. Whenever both slots hold an id, the quoted
\* bid_price is strictly less than the quoted ask_price, and the step that
\* filled either slot inserted both orders, the bid first and then the ask.
C31_NoSelfCrossingQuote ==
    [][bid_id' # 0 /\ ask_id' # 0 =>
           /\ bid_price' < ask_price'
           /\ bid_id' # bid_id \/ ask_id' # ask_id =>
                  LET ins == SelectSeq(out', LAMBDA c : c.cmd = "insert")
                  IN  /\ ev'.h = "book"
                      /\ Len(ins) = 2
                      /\ ins[1].side = "BUY" /\ ins[1].id = bid_id'
                      /\ ins[1].price = bid_price'
                      /\ ins[2].side = "SELL" /\ ins[2].id = ask_id'
                      /\ ins[2].price = ask_price'
                      /\ ins[1].id < ins[2].id]_vars

\* a requote step cancelled what was resting and placed both sides again,
\* the bid before the ask
C31_Witness ==
    /\ SignalUpdate(ev)
    /\ bid_id # 0 /\ ask_id = bid_id + 1
    /\ Len(out) >= 3 /\ out[1].cmd = "cancel"
    /\ bid_price < ask_price
    /\ bid_qtime <= ask_qtime


\* C32 as stated: every insert carries a volume of at least 1 lot, whatever
\* the position: the inventory throttle never gives a target volume of 0.
C32_PositiveOrderSize ==
    policy.done /\ policy.t # NoUpdate =>
        /\ policy.t[3] >= 1
        /\ policy.t[4] >= 1

\* the largest |position| at which the throttled side is still quoted for one
\* lot: 50 * exp(-0.05 * 92) = 0.503 rounds to 1 and 50 * exp(-0.05 * 93) =
\* 0.478 to 0; 30 * exp(-0.05 * 68) = 1.001 floors to 1 and
\* 30 * exp(-0.05 * 69) = 0.952 to 0
LastSizedPosition == IF variant = "V2" THEN 92 ELSE 68

\* C32: the volume of an insert is never negative, the side that reduces the
\* position always carries LOT_SIZE, and the throttled side carries at least
\* 1 lot exactly while |position| is at most 92 in src/autotrader.py and at
\* most 68 in autotrader_1.py; beyond that its target volume is 0.
C32_PositiveUpToLastSizedPosition ==
    policy.done /\ policy.t # NoUpdate =>
        /\ policy.t[3] >= 0 /\ policy.t[4] >= 0
        /\ policy.t[3] >= 1 <=> policy.pos <= LastSizedPosition
        /\ policy.t[4] >= 1 <=> policy.pos >= 0 - LastSizedPosition
        /\ policy.pos >= 0 => policy.t[4] = LOT_SIZE
        /\ policy.pos <= 0 => policy.t[3] = LOT_SIZE

\* src/autotrader.py at position 92: the bid is still sized at one lot
C32_Witness ==
    /\ policy.done
    /\ variant = "V2"
    /\ policy.pos = 92
    /\ policy.t[3] = 1 /\ policy.t[4] = 50


\* C33: a status with remaining volume above 0 is inert: for any id, the id
\* of the bid or ask slot included, it leaves the slots, the live-id sets, the
\* timestamps, the quoted prices, the position, the id counter and the signal
\* state as they were and sends no command.
C33_PartialStatusInert ==
    [][ev'.h = "status" /\ ev'.remaining_volume > 0 =>
           /\ ctrl' = ctrl
           /\ sig' = sig
           /\ cancelled' = cancelled
           /\ out' = <<>>]_vars

\* a status with one lot remaining arrived for the order resting in the bid
\* slot, which is still there and still live
C33_Witness ==
    /\ ev.h = "status"
    /\ ev.remaining_volume = 1
    /\ ev.id # 0 /\ ev.id = bid_id
    /\ bid_id \in bids
    /\ ask_id # 0


\* C34: cancel discipline. Every cancel command carries a non-zero id that is
\* in the bid or the ask slot when the step starts and that an earlier insert
\* carried; the step takes the id out of its slot, the id has not been
\* cancelled before and is not cancelled twice in the step, so no id is ever
\* cancelled more than once and no cancel carries the id 0.
C34_CancelDiscipline ==
    [][\A k \in 1..Len(out') : out'[k].cmd = "cancel" =>
           LET id == out'[k].id
           IN  /\ id # 0
               /\ id = bid_id \/ id = ask_id
               /\ id \in 1..Len(issued)
               /\ issued[id] = (IF id = bid_id THEN "bid" ELSE "ask")
               /\ id \notin cancelled
               /\ id # bid_id' /\ id # ask_id'
               /\ id \in cancelled'
               /\ \A j \in 1..Len(out') : j # k /\ out'[j].cmd = "cancel" =>
                      out'[j].id # id]_vars

\* a requote step cancelled both resting orders, the bid's and the ask's, and
\* neither id is in a slot any more
C34_Witness ==
    /\ SignalUpdate(ev)
    /\ Len(out) >= 2
    /\ out[1].cmd = "cancel" /\ out[2].cmd = "cancel"
    /\ issued[out[1].id] = "bid" /\ issued[out[2].id] = "ask"
    /\ {out[1].id, out[2].id} \subseteq cancelled
    /\ {out[1].id, out[2].id} \cap {bid_id, ask_id} = {}

=============================================================================
